---- MODULE Spec2Model ----
(***************************************************************************)
(* Model of the Predictive Maintenance API (src/main.py): the startup      *)
(* backend selection, the four request handlers (/predict, /generate_data, *)
(* /data, /clear_data), the flat-file helpers get_all_data / save_data and *)
(* the MongoDB collection they fall back from.                             *)
(*                                                                         *)
(* A handler is an `async def` without any await: once the event loop has  *)
(* started it, no other handler of the process runs until it returns.  The *)
(* file write of save_data is modelled chunk by chunk, because the process *)
(* can die, or the write can fail, between two chunks.                     *)
(***************************************************************************)
EXTENDS Integers, Sequences, FiniteSets, TLC

VARIABLES
    proc,          \* "init" (module not imported yet), "up", "down" (crashed)
    probe,         \* outcome of client.server_info(): "untried", "ok", "failed"
    use_mongodb,   \* the module-level flag of src/main.py
    collection,    \* the MongoDB collection: documents in natural order
    file,          \* machine_data.json: [exists, lb, recs, rb]
    reqs,          \* the requests in flight, one slot per client connection
    running,       \* the slot whose handler the event loop is running, 0 if none
    acked,         \* history: the records of the writes answered with 200 since the last answered clear
    last_clear,    \* history: the last answered request was a clear answered with 200
    crashed_in     \* history: the request whose handler was running when the process died

vars ==
    <<proc, probe, use_mongodb, collection, file, reqs, running, acked, last_clear,
      crashed_in>>

(***************************************************************************)
(* Bounds of the model.                                                    *)
(***************************************************************************)
MaxStore == 2      \* records the store may hold
MaxCount == 2      \* largest count given to /generate_data
MaxLimit == 2      \* largest limit given to /data
ReqIds == {1, 2}   \* client connections

(***************************************************************************)
(* Numbers.  A number is hi * 2^53 + lo with hi in {0, 1}: every number    *)
(* below 2^53 is a float64, a number in [2^53, 2^54) is one only when it   *)
(* is even.                                                                *)
(***************************************************************************)
Num(h, l) == [hi |-> h, lo |-> l]

\* Round an offset above 2^53 to the float64 grid (spacing 2, ties to the
\* even mantissa 2^52 + lo/2).
RoundHalfEven(l) ==
    IF l % 2 = 0 THEN l
    ELSE IF ((l - 1) \div 2) % 2 = 0 THEN l - 1 ELSE l + 1

\* The upcast of an int64 cell to float64 that df.iloc[0] makes of a row of
\* mixed int64 / float64 columns.
ToFloat64(n) ==
    IF n.hi = 0 THEN n ELSE [hi |-> n.hi, lo |-> RoundHalfEven(n.lo)]

(***************************************************************************)
(* Records.                                                                *)
(***************************************************************************)
WireFields ==
    {"Type", "Air_temperature_K", "Process_temperature_K",
     "Rotational_speed_rpm", "Torque_Nm", "Tool_wear_min"}

InputFields ==
    {"Type", "Air temperature [K]", "Process temperature [K]",
     "Rotational speed [rpm]", "Torque [Nm]", "Tool wear [min]"}

\* The wire name each stored field is filled from (predict's DataFrame literal).
WireOf(f) ==
    CASE f = "Type" -> "Type"
      [] f = "Air temperature [K]" -> "Air_temperature_K"
      [] f = "Process temperature [K]" -> "Process_temperature_K"
      [] f = "Rotational speed [rpm]" -> "Rotational_speed_rpm"
      [] f = "Torque [Nm]" -> "Torque_Nm"
      [] f = "Tool wear [min]" -> "Tool_wear_min"

\* A MachineData body: Type is an int, the five others are floats.
MachineData(t) ==
    [w \in WireFields |->
        CASE w = "Type" -> t
          [] w = "Air_temperature_K" -> Num(0, 298)
          [] w = "Process_temperature_K" -> Num(0, 308)
          [] w = "Rotational_speed_rpm" -> Num(0, 1500)
          [] w = "Torque_Nm" -> Num(0, 40)
          [] w = "Tool_wear_min" -> Num(0, 100)]

\* The bodies posted to /predict: Type 1, and Type 2^53 + 1 (validation
\* checks the type of a field, not its range).
PredictInputs == {MachineData(Num(0, 1)), MachineData(Num(1, 1))}

\* What model.predict can return.
Labels == {0, 1}

\* df = pd.DataFrame([{...}]): one row under the stored names.
DataFrameRow(data) == [f \in InputFields |-> data[WireOf(f)]]

\* record = df.iloc[0].to_dict(): the row as one float64 Series.
RowToDict(row) == [f \in InputFields |-> ToFloat64(row[f])]

\* record["prediction"] = prediction
WithPrediction(rec, p) == rec @@ ("prediction" :> p)

\* The record /predict stores for a body and a label.
PredictRecord(data, p) == WithPrediction(RowToDict(DataFrameRow(data)), p)

\* The dicts /generate_data draws: one sample of random.choice([0, 1, 2]) and
\* of each rounded uniform draw.
SynthTypes == {Num(0, 2)}

SynthData(t) ==
    [f \in InputFields |->
        CASE f = "Type" -> t
          [] f = "Air temperature [K]" -> Num(0, 298)
          [] f = "Process temperature [K]" -> Num(0, 308)
          [] f = "Rotational speed [rpm]" -> Num(0, 1500)
          [] f = "Torque [Nm]" -> Num(0, 40)
          [] f = "Tool wear [min]" -> Num(0, 100)]

SynthRecords == {WithPrediction(SynthData(t), p) : t \in SynthTypes, p \in Labels}

\* collection.insert_one(doc) adds the "_id" key to the document it stores.
WithId(rec) == rec @@ ("_id" :> "ObjectId")

\* A find without the projection: the documents as stored.
ProjectAll(doc) == doc

\* The projection {"_id": 0} of collection.find.
ProjectNoId(doc) == [f \in (DOMAIN doc) \ {"_id"} |-> doc[f]]

(***************************************************************************)
(* The flat file.  lb / rb: the opening / closing bracket of the array is  *)
(* on disk; recs: the records on disk between them.                        *)
(***************************************************************************)
AbsentFile == [exists |-> FALSE, lb |-> FALSE, recs |-> <<>>, rb |-> FALSE]
EmptyArrayFile == [exists |-> TRUE, lb |-> TRUE, recs |-> <<>>, rb |-> TRUE]
TruncatedFile == [exists |-> TRUE, lb |-> FALSE, recs |-> <<>>, rb |-> FALSE]

\* json.load accepts the file.
WellFormed(f) == f.exists /\ f.lb /\ f.rb

\* get_all_data: the file after its `if not os.path.exists` branch.
FileAfterGet(f) == IF f.exists THEN f ELSE EmptyArrayFile

\* get_all_data: json.load raises on a file that is no JSON document.
GetRaises(f) == f.exists /\ ~WellFormed(f)

\* A save of the new records alone, without the ones read.
ExtendOverwrite(all_data, new) == new

\* all_data.append(record) / all_data.extend(generated_data)
Extend(all_data, new) == all_data \o new

\* data[:limit]: a slice from the head of the list.
HeadSlice(data, limit) == SubSeq(data, 1, limit)

\* data[-limit:] of /data: Python's slice from index -limit (-0 is 0).
TailSlice(data, limit) ==
    LET n == Len(data)
        start == IF limit = 0 THEN 0 ELSE IF n - limit > 0 THEN n - limit ELSE 0
    IN SubSeq(data, start + 1, n)

\* /data on the flat file: data[-limit:] if len(data) > limit else data
FileFind(data, limit) == IF Len(data) > limit THEN TailSlice(data, limit) ELSE data

\* /data on MongoDB: find({}, {"_id": 0}).limit(limit); limit(0) is no limit.
MongoFind(coll, limit) ==
    LET n == IF limit = 0 \/ limit > Len(coll) THEN Len(coll) ELSE limit
    IN [i \in 1..n |-> ProjectNoId(coll[i])]

(***************************************************************************)
(* Responses.                                                              *)
(***************************************************************************)
NoResp == [status |-> 0]
Error500(detail) == [status |-> 500, detail |-> detail]
PredictResponse(rec) ==
    [status |-> 200, prediction |-> rec["prediction"], failure |-> rec["prediction"] # 0]
GenerateResponse(count) == [status |-> 200, count |-> count]
DataResponse(data) == [status |-> 200, data |-> data, count |-> Len(data)]
\* A clear that reports no count.
ClearResponseZero(deleted_count) == [status |-> 200, deleted |-> 0]
ClearResponse(deleted_count) == [status |-> 200, deleted |-> deleted_count]

(***************************************************************************)
(* Requests.                                                               *)
(***************************************************************************)
NoData == MachineData(Num(0, 0))

(***************************************************************************)
(* The dashboard (src/app.py): what the "Test Prediction" form shows for   *)
(* the response of POST /predict.                                          *)
(***************************************************************************)
NoView == [shown |-> "nothing"]

\* The form on a 200: the "Machine Failure" text and the CSS class of its span.
PredictionView(result) ==
    [shown |-> "result",
     failure |-> IF result.prediction = 0 THEN "Yes" ELSE "No",
     color_class |-> IF result.prediction = 1 THEN "failure-1" ELSE "failure-0"]

\* The form on any other status: st.error.
ErrorView == [shown |-> "error"]

\* The submit handler of the form, from the response on.
FormView(resp) == IF resp.status = 200 THEN PredictionView(resp) ELSE ErrorView

Idle ==
    [op |-> "none", pc |-> "idle", data |-> NoData, count |-> 0, limit |-> 0,
     all_data |-> <<>>, new |-> <<>>, base |-> 0, resp |-> NoResp, view |-> NoView]

\* A request the server has accepted; its body and query string are parsed
\* when the event loop calls the handler.
NewRequest(op) == [Idle EXCEPT !.op = op, !.pc = "pending"]

Started(q) == q.pc \notin {"idle", "pending", "shown"}

\* Records a request adds to the store when it succeeds.
Adds(q) ==
    CASE q.op = "predict" -> 1
      [] q.op = "generate" /\ q.count > 0 -> q.count
      [] OTHER -> 0

StoreLen == IF use_mongodb THEN Len(collection) ELSE Len(file.recs)

RECURSIVE SumAdds(_)
SumAdds(S) ==
    IF S = {} THEN 0
    ELSE LET r == CHOOSE x \in S : TRUE IN Adds(reqs[r]) + SumAdds(S \ {r})

RECURSIVE MaxOf(_)
MaxOf(S) ==
    LET x == CHOOSE y \in S : TRUE
    IN IF S = {x} THEN x
       ELSE LET m == MaxOf(S \ {x}) IN IF x > m THEN x ELSE m

\* The model's bound on the store: what it holds, or held when a running
\* handler read it, plus what the requests in flight may add.
Room ==
    MaxStore - MaxOf({StoreLen} \cup {reqs[r].base : r \in {x \in ReqIds : Started(reqs[x])}})
             - SumAdds({x \in ReqIds : Started(reqs[x])})

\* Handlers run in a thread pool (plain `def` handlers): any may start.
EventLoopAlwaysFree == TRUE

\* The event loop starts a handler only when no other handler is running:
\* the handlers are coroutines without an await.
EventLoopFree == running = 0

\* The list save_data is called with.
SaveArg(q) == IF q.op = "clear" THEN <<>> ELSE Extend(q.all_data, q.new)

\* The response of a handler whose save_data has returned.
SavedResponse(q) ==
    CASE q.op = "predict" -> PredictResponse(q.new[1])
      [] q.op = "generate" -> GenerateResponse(q.count)
      [] q.op = "clear" -> ClearResponse(Len(q.all_data))

\* A startup that keeps the file backend whatever the probe says.
SelectAlwaysFile(ok) == FALSE

\* The flag the startup try / except leaves.
SelectBackend(ok) == ok

(***************************************************************************)
(* Initial state: the module is not imported yet.  The file is absent, an  *)
(* empty array, or what an interrupted save_data of an earlier run left.   *)
(***************************************************************************)
Init ==
    /\ proc = "init"
    /\ probe = "untried"
    /\ use_mongodb = FALSE
    /\ collection = <<>>
    /\ file \in {AbsentFile, EmptyArrayFile, TruncatedFile}
    /\ reqs = [r \in ReqIds |-> Idle]
    /\ running = 0
    /\ acked = <<>>
    /\ last_clear = FALSE
    /\ crashed_in = Idle

\* Module import: the probe and the choice of the backend.
Startup ==
    /\ proc = "init"
    /\ \E ok \in BOOLEAN :
        /\ probe' = IF ok THEN "ok" ELSE "failed"
        /\ use_mongodb' = SelectBackend(ok)
        /\ file' = IF ok THEN file ELSE FileAfterGet(file)
    /\ proc' = "up"
    /\ UNCHANGED <<collection, reqs, running, acked, last_clear, crashed_in>>

\* A client sends a request.
Arrive(r) ==
    /\ proc = "up"
    /\ reqs[r].pc = "idle"
    /\ \E op \in {"predict", "generate", "fetch", "clear"} :
        reqs' = [reqs EXCEPT ![r] = NewRequest(op)]
    /\ UNCHANGED <<proc, probe, use_mongodb, collection, file, running, acked, last_clear, crashed_in>>

\* The part of a flat-file handler up to and including get_all_data().
ReadFile(r, q) ==
    /\ file' = FileAfterGet(file)
    /\ IF GetRaises(file)
       THEN reqs' = [reqs EXCEPT ![r] =
                        [q EXCEPT !.pc = "ret", !.resp = Error500("JSONDecodeError")]]
       ELSE reqs' = [reqs EXCEPT ![r] =
                        [q EXCEPT !.pc = "open", !.all_data = FileAfterGet(file).recs]]

\* /predict, lines 91-104 and 109: build the record, read the file.
BeginPredict(r) ==
    /\ proc = "up" /\ reqs[r].pc = "pending" /\ reqs[r].op = "predict"
    /\ EventLoopFree
    /\ running' = r
    /\ Room >= 1
    /\ \E d \in PredictInputs, p \in Labels :
        LET q == [reqs[r] EXCEPT !.data = d, !.new = <<PredictRecord(d, p)>>,
                                 !.base = StoreLen]
        IN IF use_mongodb
           THEN /\ reqs' = [reqs EXCEPT ![r] = [q EXCEPT !.pc = "insert"]]
                /\ UNCHANGED file
           ELSE ReadFile(r, q)
    /\ UNCHANGED <<proc, probe, use_mongodb, collection, acked, last_clear, crashed_in>>

\* /predict, line 107: collection.insert_one(record), which may raise.
InsertOne(r) ==
    /\ proc = "up" /\ reqs[r].pc = "insert"
    /\ \E ok \in BOOLEAN :
        IF ok
        THEN /\ collection' = Append(collection, WithId(reqs[r].new[1]))
             /\ reqs' = [reqs EXCEPT ![r].pc = "ret",
                                     ![r].resp = PredictResponse(reqs[r].new[1])]
        ELSE /\ reqs' = [reqs EXCEPT ![r].pc = "ret",
                                     ![r].resp = Error500("PyMongoError")]
             /\ UNCHANGED collection
    /\ UNCHANGED <<proc, probe, use_mongodb, file, running, acked, last_clear, crashed_in>>

\* /generate_data, lines 120-153: on the flat file the loop fills
\* generated_data, then the file is read; on MongoDB the loop inserts.
BeginGenerate(r) ==
    /\ proc = "up" /\ reqs[r].pc = "pending" /\ reqs[r].op = "generate"
    /\ EventLoopFree
    /\ running' = r
    /\ \E count \in -1..MaxCount :
        /\ count <= Room
        /\ IF use_mongodb
           THEN /\ reqs' = [reqs EXCEPT
                      ![r].count = count,
                      ![r].base = StoreLen,
                      ![r].pc = IF count > 0 THEN "geninsert" ELSE "ret",
                      ![r].resp = IF count > 0 THEN NoResp
                                  ELSE GenerateResponse(count)]
                /\ UNCHANGED file
           ELSE \E g \in [1..count -> SynthRecords] :
                   ReadFile(r, [reqs[r] EXCEPT !.count = count, !.new = g,
                                               !.base = StoreLen])
    /\ UNCHANGED <<proc, probe, use_mongodb, collection, acked, last_clear, crashed_in>>

\* /generate_data, lines 123-148 on MongoDB: one turn of the loop.
GenInsert(r) ==
    /\ proc = "up" /\ reqs[r].pc = "geninsert"
    /\ \E rec \in SynthRecords, ok \in BOOLEAN :
        IF ok
        THEN /\ collection' = Append(collection, WithId(rec))
             /\ LET new == Append(reqs[r].new, rec)
                    last == Len(new) = reqs[r].count
                IN reqs' = [reqs EXCEPT
                      ![r].new = new,
                      ![r].pc = IF last THEN "ret" ELSE "geninsert",
                      ![r].resp = IF last THEN GenerateResponse(reqs[r].count)
                                  ELSE NoResp]
        ELSE /\ reqs' = [reqs EXCEPT ![r].pc = "ret",
                                     ![r].resp = Error500("PyMongoError")]
             /\ UNCHANGED collection
    /\ UNCHANGED <<proc, probe, use_mongodb, file, running, acked, last_clear, crashed_in>>

\* /data, lines 164-171.
Fetch(r) ==
    /\ proc = "up" /\ reqs[r].pc = "pending" /\ reqs[r].op = "fetch"
    /\ EventLoopFree
    /\ running' = r
    /\ \E limit \in 0..MaxLimit :
        IF use_mongodb
        THEN /\ \E ok \in BOOLEAN :
                 reqs' = [reqs EXCEPT
                    ![r].limit = limit,
                    ![r].base = StoreLen,
                    ![r].pc = "ret",
                    ![r].resp = IF ok
                                THEN DataResponse(MongoFind(collection, limit))
                                ELSE Error500("PyMongoError")]
             /\ UNCHANGED file
        ELSE /\ file' = FileAfterGet(file)
             /\ reqs' = [reqs EXCEPT
                    ![r].limit = limit,
                    ![r].base = StoreLen,
                    ![r].pc = "ret",
                    ![r].resp = IF GetRaises(file)
                                THEN Error500("JSONDecodeError")
                                ELSE DataResponse(FileFind(FileAfterGet(file).recs, limit))]
    /\ UNCHANGED <<proc, probe, use_mongodb, collection, acked, last_clear, crashed_in>>

\* /clear_data, lines 178-183: delete_many on MongoDB, get_all_data on the file.
BeginClear(r) ==
    /\ proc = "up" /\ reqs[r].pc = "pending" /\ reqs[r].op = "clear"
    /\ EventLoopFree
    /\ running' = r
    /\ IF use_mongodb
       THEN /\ \E ok \in BOOLEAN :
                IF ok
                THEN /\ collection' = <<>>
                     /\ reqs' = [reqs EXCEPT
                           ![r].base = StoreLen,
                           ![r].pc = "ret",
                           ![r].resp = ClearResponse(Len(collection))]
                ELSE /\ reqs' = [reqs EXCEPT
                           ![r].base = StoreLen,
                           ![r].pc = "ret",
                           ![r].resp = Error500("PyMongoError")]
                     /\ UNCHANGED collection
            /\ UNCHANGED file
       ELSE /\ ReadFile(r, [reqs[r] EXCEPT !.base = StoreLen])
            /\ UNCHANGED collection
    /\ UNCHANGED <<proc, probe, use_mongodb, acked, last_clear, crashed_in>>

\* save_data, line 84: open(DATA_FILE, "w") truncates the file.
OpenTruncate(r) ==
    /\ proc = "up" /\ reqs[r].pc = "open"
    /\ file' = TruncatedFile
    /\ reqs' = [reqs EXCEPT ![r].pc = "write"]
    /\ UNCHANGED <<proc, probe, use_mongodb, collection, running, acked, last_clear, crashed_in>>

\* save_data, line 85: json.dump writes the next chunk; after the last one
\* the file is closed and the handler has its response.
WriteChunk(r) ==
    /\ proc = "up" /\ reqs[r].pc = "write"
    /\ LET data == SaveArg(reqs[r])
           done == [reqs EXCEPT ![r].pc = "ret", ![r].resp = SavedResponse(reqs[r])]
       IN IF ~file.lb
          THEN IF data = <<>>
               THEN /\ file' = EmptyArrayFile
                    /\ reqs' = done
               ELSE /\ file' = [file EXCEPT !.lb = TRUE]
                    /\ UNCHANGED reqs
          ELSE IF Len(file.recs) < Len(data)
               THEN /\ file' = [file EXCEPT !.recs = Append(@, data[Len(@) + 1])]
                    /\ UNCHANGED reqs
               ELSE /\ file' = [file EXCEPT !.rb = TRUE]
                    /\ reqs' = done
    /\ UNCHANGED <<proc, probe, use_mongodb, collection, running, acked, last_clear, crashed_in>>

\* save_data, line 85: a write raises (OSError); the handler answers 500.
WriteFail(r) ==
    /\ proc = "up" /\ reqs[r].pc = "write"
    /\ reqs' = [reqs EXCEPT ![r].pc = "ret", ![r].resp = Error500("OSError")]
    /\ UNCHANGED <<proc, probe, use_mongodb, collection, file, running, acked, last_clear, crashed_in>>

\* The handler returns: the response goes to the client, the event loop is free.
\* The client of a /predict may be the dashboard's form, which shows the result.
Return(r) ==
    /\ proc = "up" /\ reqs[r].pc = "ret"
    /\ \/ reqs' = [reqs EXCEPT ![r] = Idle]
       \/ /\ reqs[r].op = "predict"
          /\ reqs' = [reqs EXCEPT ![r] =
                 [Idle EXCEPT !.op = "predict", !.pc = "shown",
                              !.resp = reqs[r].resp,
                              !.view = FormView(reqs[r].resp)]]
    /\ running' = 0
    /\ LET q == reqs[r]
           ok == q.resp.status = 200
       IN /\ acked' = CASE ok /\ q.op \in {"predict", "generate"} -> acked \o q.new
                        [] ok /\ q.op = "clear" -> <<>>
                        [] OTHER -> acked
          /\ last_clear' = (ok /\ q.op = "clear")
    /\ UNCHANGED <<proc, probe, use_mongodb, collection, file, crashed_in>>

\* The process dies (kill, power loss): its requests are gone with it, the
\* stores stay as they are.
Crash ==
    /\ proc = "up"
    /\ proc' = "down"
    /\ crashed_in' = IF running = 0 THEN Idle ELSE reqs[running]
    /\ reqs' = [r \in ReqIds |-> Idle]
    /\ running' = 0
    /\ UNCHANGED <<probe, use_mongodb, collection, file, acked, last_clear>>

\* The dashboard script runs again (any interaction): the result is gone.
Rerun(r) ==
    /\ proc = "up" /\ reqs[r].pc = "shown"
    /\ reqs' = [reqs EXCEPT ![r] = Idle]
    /\ UNCHANGED <<proc, probe, use_mongodb, collection, file, running, acked,
                   last_clear, crashed_in>>

Next ==
    \/ Startup
    \/ Crash
    \/ \E r \in ReqIds :
        \/ Arrive(r)
        \/ BeginPredict(r)
        \/ InsertOne(r)
        \/ BeginGenerate(r)
        \/ GenInsert(r)
        \/ Fetch(r)
        \/ BeginClear(r)
        \/ OpenTruncate(r)
        \/ WriteChunk(r)
        \/ WriteFail(r)
        \/ Return(r)
        \/ Rerun(r)

Spec == Init /\ [][Next]_vars

(***************************************************************************)
(* Properties.                                                             *)
(***************************************************************************)
IsPrefix(s, t) == Len(s) <= Len(t) /\ SubSeq(t, 1, Len(s)) = s

Answered(q, op) == q.op = op /\ q.pc = "ret"
Succeeded(q, op) == Answered(q, op) /\ q.resp.status = 200

\* C1 (bulk count): when /generate_data with count N >= 0 is about to answer
\* 200, the store holds exactly N records more than when the handler began
\* (the file is a well-formed array), the response reports count N, and for
\* N = 0 the flat file holds what was read.
C1_BulkCount ==
    \A r \in ReqIds :
        LET q == reqs[r]
        IN (Succeeded(q, "generate") /\ q.count >= 0) =>
              /\ StoreLen = q.base + q.count
              /\ q.resp.count = q.count
              /\ ~use_mongodb => WellFormed(file)
              /\ (~use_mongodb /\ q.count = 0) => file.recs = q.all_data

C1_Witness ==
    \E r \in ReqIds :
        /\ Succeeded(reqs[r], "generate")
        /\ reqs[r].count >= 1
        /\ reqs[r].base >= 1

\* C2 (idempotent clear): a /clear_data about to answer 200 reports the number
\* of records the store held when it began and leaves the store empty; a clear
\* that follows an answered clear directly is not refused by the state of the
\* store and reports 0.
C2_IdempotentClear ==
    \A r \in ReqIds :
        LET q == reqs[r]
        IN Answered(q, "clear") =>
              /\ q.resp.status = 200 =>
                    /\ q.resp.deleted = q.base
                    /\ StoreLen = 0
                    /\ ~use_mongodb => file = EmptyArrayFile
              /\ last_clear =>
                    /\ q.resp.status = 500 => q.resp.detail # "JSONDecodeError"
                    /\ q.resp.status = 200 => q.resp.deleted = 0

C2_Witness ==
    \E r \in ReqIds : last_clear /\ Succeeded(reqs[r], "clear") /\ reqs[r].resp.deleted = 0

\* C3 (round trip): on the flat file, when /predict is about to answer 200 the
\* file holds one record more than before, and /data?limit=1 returns that
\* record: its six fields equal the submitted ones, its prediction is 0 or 1
\* and is the prediction of the response.
C3_RoundTrip ==
    \A r \in ReqIds :
        LET q == reqs[r]
            got == FileFind(file.recs, 1)
        IN (Succeeded(q, "predict") /\ ~use_mongodb) =>
              /\ WellFormed(file)
              /\ Len(file.recs) = q.base + 1
              /\ Len(got) = 1
              /\ \A f \in InputFields : got[1][f] = q.data[WireOf(f)]
              /\ got[1]["prediction"] \in {0, 1}
              /\ got[1]["prediction"] = q.resp.prediction

\* C4 (shape): every record /data returns has exactly the six input fields and
\* prediction, with a label as prediction, on either backend; every record in
\* the file or the collection has its prediction.
C4_Shape ==
    /\ \A r \in ReqIds :
          Succeeded(reqs[r], "fetch") =>
             \A i \in DOMAIN reqs[r].resp.data :
                /\ DOMAIN reqs[r].resp.data[i] = InputFields \cup {"prediction"}
                /\ reqs[r].resp.data[i]["prediction"] \in Labels
    /\ \A i \in DOMAIN file.recs : "prediction" \in DOMAIN file.recs[i]
    /\ \A i \in DOMAIN collection : "prediction" \in DOMAIN collection[i]

C4_Witness ==
    \E r \in ReqIds :
        /\ use_mongodb
        /\ Succeeded(reqs[r], "fetch")
        /\ Len(reqs[r].resp.data) >= 1

\* C5 (bounded retrieval): /data with limit >= 0 returns at most limit records
\* and reports the number it returns.
C5_BoundedRetrieval ==
    \A r \in ReqIds :
        LET q == reqs[r]
        IN (Succeeded(q, "fetch") /\ q.limit >= 0) =>
              /\ Len(q.resp.data) <= q.limit
              /\ q.resp.count = Len(q.resp.data)

\* C6 (tail semantics): on the flat file, /data with limit >= 1 returns the
\* last min(limit, n) records of the n stored, in insertion order.
C6_TailSemantics ==
    \A r \in ReqIds :
        LET q == reqs[r]
            n == Len(file.recs)
            k == IF q.limit < n THEN q.limit ELSE n
        IN (Succeeded(q, "fetch") /\ ~use_mongodb /\ q.limit >= 1) =>
              /\ WellFormed(file)
              /\ q.resp.data = SubSeq(file.recs, n - k + 1, n)

C6_Witness ==
    \E r \in ReqIds :
        /\ Succeeded(reqs[r], "fetch")
        /\ ~use_mongodb
        /\ reqs[r].limit >= 1
        /\ Len(file.recs) > reqs[r].limit
        /\ file.recs[1] # file.recs[Len(file.recs)]

\* C7 (crash atomicity): when the process died inside the read / append /
\* rewrite sequence of /predict or /generate_data on the flat file, the file is
\* a well-formed array of the old records, or of the old records and all the
\* new ones.
C7_CrashAtomicity ==
    (/\ proc = "down"
     /\ ~use_mongodb
     /\ crashed_in.op \in {"predict", "generate"}
     /\ crashed_in.pc \in {"open", "write"}) =>
        /\ WellFormed(file)
        /\ file.recs \in {crashed_in.all_data, Extend(crashed_in.all_data, crashed_in.new)}

FileWrite(q) == q.op \in {"predict", "generate"}

\* C8 as stated (lost writes): whenever a write request on the flat file is
\* between its read of the whole file and the end of its overwrite, a second,
\* pending write request of the same process can take its own read step.
C8_CanInterleave ==
    \A a, b \in ReqIds :
        (/\ a # b
         /\ proc = "up" /\ ~use_mongodb
         /\ FileWrite(reqs[a]) /\ reqs[a].pc \in {"open", "write"}
         /\ FileWrite(reqs[b]) /\ reqs[b].pc = "pending"
         /\ Room >= 1) =>
            ENABLED (BeginPredict(b) \/ BeginGenerate(b))

\* C8 as amended: whenever no handler is running, a well-formed file holds
\* exactly the records of the writes answered with 200 since the last answered
\* clear, in the order the handlers ran: no answered write is lost.
C8_NoLostWrite ==
    (/\ proc = "up" /\ ~use_mongodb
     /\ \A r \in ReqIds : ~Started(reqs[r])
     /\ WellFormed(file)) =>
        file.recs = acked

C8_Witness ==
    \E a, b \in ReqIds :
        /\ a # b
        /\ ~use_mongodb
        /\ Succeeded(reqs[a], "predict")
        /\ FileWrite(reqs[b]) /\ reqs[b].pc = "pending"
        /\ Len(acked) >= 1
        /\ file.recs = Extend(acked, reqs[a].new)

\* C9 (backend selection): the import selects MongoDB exactly when the probe
\* succeeded, and otherwise creates an empty file if there is none; after the
\* import no step changes the flag or probes again, whatever a storage
\* operation answers.
C9_BackendSelection ==
    /\ [](proc # "init" => (use_mongodb <=> probe = "ok"))
    /\ [][proc = "init" =>
            /\ use_mongodb' => file' = file
            /\ ~use_mongodb' => file' = (IF file.exists THEN file ELSE EmptyArrayFile)]_vars
    /\ [][proc # "init" => (use_mongodb' = use_mongodb /\ probe' = probe)]_vars

C9_Witness ==
    \E r \in ReqIds :
        /\ proc = "up" /\ probe = "failed" /\ ~use_mongodb
        /\ reqs[r].pc = "ret" /\ reqs[r].resp.status = 500

\* C10 (record immutability): when a /predict, /generate_data or /data call on
\* the flat file is over - about to answer, or cut short by the death of the
\* process - the file still starts with the records it held when the call
\* read it.
C10_Immutability ==
    /\ \A r \in ReqIds :
          (~use_mongodb /\ reqs[r].pc = "ret" /\ reqs[r].op \in {"predict", "generate", "fetch"}) =>
             IsPrefix(reqs[r].all_data, file.recs)
    /\ (/\ proc = "down" /\ ~use_mongodb
        /\ crashed_in.op \in {"predict", "generate", "fetch"}
        /\ crashed_in.pc \in {"open", "write", "ret"}) =>
          IsPrefix(crashed_in.all_data, file.recs)

\* C11 (non-negative count): a /generate_data with a negative count answers an
\* error and adds no record; it never answers 200 with a negative count.
C11_NonNegativeCount ==
    \A r \in ReqIds :
        LET q == reqs[r]
        IN (Answered(q, "generate") /\ q.count < 0) =>
              /\ q.resp.status # 200
              /\ StoreLen = q.base

\* C12 (dashboard label): for a /predict answered 200, the form's "Machine
\* Failure" text is "Yes" exactly when the response's failure flag is true and
\* "No" exactly when it is false, and the text is "Yes" exactly when the
\* colour class is failure-1.
C12_DashboardLabel ==
    \A r \in ReqIds :
        LET q == reqs[r]
        IN (q.pc = "shown" /\ q.resp.status = 200) =>
              /\ q.view.failure = "Yes" <=> q.resp.failure
              /\ q.view.failure = "No" <=> ~q.resp.failure
              /\ q.view.failure = "Yes" <=> q.view.color_class = "failure-1"
              /\ q.view.failure = "No" <=> q.view.color_class = "failure-0"

====
